---- MODULE Spec2Model ----
(***************************************************************************)
(* PayLink purchase flow: the path of one aggregator (VTPass) response     *)
(* through purchaseService -> VTPassProvider.makePurchase -> the purchase  *)
(* screen, and the purchase / retry state machine of the five purchase     *)
(* screens (airtime, data, exam, cable TV, electricity).                   *)
(*                                                                         *)
(* JavaScript values are modelled as follows.  A missing property is the   *)
(* string "undefined".  A response object is a record of the properties    *)
(* the code reads; `status` is content.transactions.status, `amount` is    *)
(* content.transactions.amount, `txn` is transaction.status, and the       *)
(* wrapped `response` object is the pair (hasResponse, r).                 *)
(***************************************************************************)
EXTENDS Integers, Sequences, FiniteSets, TLC

Undef == "undefined"

\* JavaScript truthiness of an optional string property.
Truthy(s) == s \notin {Undef, ""}

\* a || b on optional strings
OrElse(a, b) == IF Truthy(a) THEN a ELSE b

\* String.prototype.includes over the descriptions of the model.
Includes(s, sub) ==
    CASE sub = "SUCCESSFUL" -> s \in {"TRANSACTION SUCCESSFUL", "PAYMENT SUCCESSFUL"}
      [] sub = "TRANSACTION SUCCESSFUL" -> s = "TRANSACTION SUCCESSFUL"
      [] OTHER -> FALSE

(***************************************************************************)
(* The aggregator payloads the model enumerates.                           *)
(***************************************************************************)
Codes == {Undef, "000", "01", "099", "016", "010", "014", "018", "026", "009"}
Descs == {Undef, "", "TRANSACTION SUCCESSFUL", "PAYMENT SUCCESSFUL", "TRANSACTION FAILED"}
Statuses == {Undef, "delivered", "successful", "failed"}
ErrorMessages == {Undef, "Provider rejected the request."}
SuggestedActions == {Undef, "Try a different plan."}
Amounts == {Undef, "100.00"}
TxnStatuses == {Undef, "successful"}

EmptyObj ==
    [code |-> Undef, response_description |-> Undef, status |-> Undef,
     amount |-> Undef, error_message |-> Undef, suggested_action |-> Undef,
     txn |-> Undef]

\* Every top-level object over the enumerated properties.
TopObjs ==
    [code : Codes, response_description : Descs, status : Statuses,
     amount : Amounts, error_message : ErrorMessages,
     suggested_action : SuggestedActions, txn : TxnStatuses]

\* The objects found under the `response` property.
NestedObjs ==
    [code : {Undef, "000", "099", "016", "010"},
     response_description : {Undef, "TRANSACTION SUCCESSFUL", "TRANSACTION FAILED"},
     status : Statuses, amount : {Undef}, error_message : ErrorMessages,
     suggested_action : {Undef}, txn : TxnStatuses]

\* The top-level objects that come with a `response` property.
WrapperObjs ==
    [code : {Undef, "000", "016"},
     response_description : {Undef, "TRANSACTION SUCCESSFUL"},
     status : {Undef, "delivered"}, amount : {Undef}, error_message : {Undef},
     suggested_action : {Undef}, txn : {Undef}]

NullResp == [kind |-> "null", o |-> EmptyObj, hasResponse |-> FALSE, r |-> EmptyObj]

ObjResp(o) == [kind |-> "obj", o |-> o, hasResponse |-> FALSE, r |-> EmptyObj]

\* The fetch of apiRequest did not produce a response: the AbortController of
\* makePurchase aborted it, or it rejected with a network TypeError.
AbortedResp == [kind |-> "abort", o |-> EmptyObj, hasResponse |-> FALSE, r |-> EmptyObj]
NetworkErrorResp == [kind |-> "network", o |-> EmptyObj, hasResponse |-> FALSE, r |-> EmptyObj]

\* The fetch produced a response that apiRequest turns into an error: a 401
\* that the token refresh did not cure, or another non-2xx status.
SessionExpiredResp == [kind |-> "expired", o |-> EmptyObj, hasResponse |-> FALSE, r |-> EmptyObj]
HttpErrorResp == [kind |-> "http", o |-> EmptyObj, hasResponse |-> FALSE, r |-> EmptyObj]

RawResponses ==
    {NullResp, AbortedResp, NetworkErrorResp, SessionExpiredResp, HttpErrorResp}
    \cup {ObjResp(o) : o \in TopObjs}
    \cup {[kind |-> "obj", o |-> o, hasResponse |-> TRUE, r |-> r] :
            o \in WrapperObjs, r \in NestedObjs}

(***************************************************************************)
(* src/lib/api.ts purchaseService, after apiRequest has resolved with raw. *)
(* The result is a returned value or a thrown managed Error.               *)
(***************************************************************************)
Returned(v) == [tag |-> "return", val |-> v, message |-> Undef]
Thrown(msg) == [tag |-> "throw", val |-> NullResp, message |-> msg]

SuccessStatus(s) == s \in {"delivered", "successful"}

\* The messages of the errors apiRequest throws from its catch block.
TimeoutMessage == "Request timed out. Please try again."
NetworkErrorMessage == "Network error. Please check your internet connection."

SessionExpiredMessage == "Session expired. Please login again."
HttpErrorMessage == "Request failed with status 500"

apiRequestError(raw) ==
    CASE raw.kind = "abort" -> TimeoutMessage
      [] raw.kind = "expired" -> SessionExpiredMessage
      [] raw.kind = "http" -> HttpErrorMessage
      [] OTHER -> NetworkErrorMessage

purchaseService(raw) ==
    IF raw.kind \in {"abort", "network", "expired", "http"}
    THEN \* the error of apiRequest is rethrown by the catch block
         Thrown(apiRequestError(raw))
    ELSE
    IF raw.kind = "obj"
    THEN IF \/ raw.o.code = "000"
            \/ raw.o.code = "01"
            \/ SuccessStatus(raw.o.status)
         THEN Returned(raw)
         ELSE IF raw.hasResponse
              THEN IF raw.r.code = "000" \/ SuccessStatus(raw.r.status)
                   THEN Returned(ObjResp(raw.r))
                   ELSE IF \/ raw.r.code = "016"
                           \/ raw.r.code = "010"
                           \/ raw.r.status = "failed"
                        THEN Thrown(OrElse(raw.r.response_description,
                                      OrElse(raw.r.error_message,
                                             "Transaction failed on VTPass")))
                        ELSE Returned(raw)
              ELSE Returned(raw)
    ELSE Returned(raw)

(***************************************************************************)
(* VTPassProvider.makePurchase.  The result carries the value the promise  *)
(* resolves with, the toasts the provider raised, the number of            *)
(* fetchBalance calls it made and the number of network calls.             *)
(***************************************************************************)
ErrorResp(msg) ==
    ObjResp([EmptyObj EXCEPT !.code = "error",
                             !.response_description = OrElse(msg, "Purchase failed"),
                             !.error_message = OrElse(msg, "An unknown error occurred")])

NullDerefMessage == "Cannot read properties of null (reading 'transaction')"

\* The promise of makePurchase resolves with ret, or rejects.
Resolved(ret, toasts, refreshes, calls) ==
    [settled |-> "resolve", ret |-> ret, toasts |-> toasts, refreshes |-> refreshes,
     calls |-> calls]
Rejected(calls) ==
    [settled |-> "reject", ret |-> NullResp, toasts |-> <<>>, refreshes |-> 0,
     calls |-> calls]

\* The outer try block of makePurchase: it completes, or an error leaves it.
makePurchaseBody(raw) ==
    LET res == purchaseService(raw) IN
    IF res.tag = "throw"
    THEN [tag |-> "throw", message |-> res.message, val |-> NullResp]
    ELSE IF res.val.kind = "null"
         THEN \* response.transaction on null throws a TypeError
              [tag |-> "throw", message |-> NullDerefMessage, val |-> NullResp]
         ELSE [tag |-> "return", message |-> Undef, val |-> res.val]

\* makePurchase without the catch block that builds the error response.
makePurchaseUncaught(isAuthenticated, raw) ==
    IF ~isAuthenticated
    THEN Resolved(NullResp, <<"error">>, 0, 0)
    ELSE LET body == makePurchaseBody(raw) IN
         IF body.tag = "throw"
         THEN Rejected(1)
         ELSE IF \/ body.val.o.txn = "successful"
                 \/ (body.val.hasResponse /\ body.val.r.txn = "successful")
              THEN Resolved(body.val, <<"success">>, 1, 1)
              ELSE Resolved(body.val, <<"info">>, 0, 1)

makePurchase(isAuthenticated, raw) ==
    IF ~isAuthenticated
    THEN Resolved(NullResp, <<"error">>, 0, 0)
    ELSE LET body == makePurchaseBody(raw) IN
         IF body.tag = "throw"
         THEN Resolved(ErrorResp(body.message), <<>>, 0, 1)
         ELSE IF \/ body.val.o.txn = "successful"
                 \/ (body.val.hasResponse /\ body.val.r.txn = "successful")
              THEN Resolved(body.val, <<"success">>, 1, 1)
              ELSE Resolved(body.val, <<"info">>, 0, 1)

(***************************************************************************)
(* src/lib/vtpass-helpers: isVTPassSuccess and extractVTPassErrorMessage.  *)
(***************************************************************************)
isVTPassSuccess(response) ==
    /\ response.kind = "obj"
    /\ \/ response.o.code = "000"
       \/ response.o.code = "01"
       \/ /\ Truthy(response.o.response_description)
          /\ Includes(response.o.response_description, "SUCCESSFUL")

SuccessMessage == "Transaction completed successfully!"
PendingMessage == "Transaction is pending. Please wait for confirmation."
DefaultErrorMessage == "An error occurred with your transaction."

WithSuggestedAction(d, msg) ==
    IF Truthy(d.suggested_action) THEN msg \o " " \o d.suggested_action ELSE msg

extractVTPassErrorMessage(response) ==
    LET d == response.o
        base == IF Truthy(d.error_message) THEN d.error_message
                ELSE IF Truthy(d.response_description) THEN d.response_description
                ELSE DefaultErrorMessage
    IN  IF d.code = "000" /\ Includes(d.response_description, "TRANSACTION SUCCESSFUL")
        THEN SuccessMessage
        ELSE CASE d.code = "000" ->
                    IF Includes(d.response_description, "SUCCESSFUL")
                    THEN SuccessMessage
                    ELSE WithSuggestedAction(d, base)
               [] d.code = "099" -> PendingMessage
               [] d.code = "016" ->
                    WithSuggestedAction(d, "Transaction failed: " \o base)
               [] d.code = "014" ->
                    WithSuggestedAction(d, "Insufficient funds in your account. Please add funds and try again.")
               [] d.code = "010" ->
                    WithSuggestedAction(d, "The selected variation code does not exist for this product. Please try a different bundle.")
               [] d.code = "009" ->
                    WithSuggestedAction(d, "Duplicate transaction detected. Please check if your previous transaction was successful.")
               [] d.code = "018" ->
                    WithSuggestedAction(d, "Invalid phone number format. Please check and try again.")
               [] d.code = "020" ->
                    WithSuggestedAction(d, "Transaction verification failed. Please contact support.")
               [] d.code = "021" ->
                    WithSuggestedAction(d, "Network error or service unavailable. Please try again later.")
               [] d.code = "025" ->
                    WithSuggestedAction(d, "Invalid amount for this service. Please enter a valid amount.")
               [] d.code = "026" ->
                    WithSuggestedAction(d, "Invalid variation code. Please select a different bundle.")
               [] OTHER -> WithSuggestedAction(d, base)

\* The airtime screen's own extractVTPassErrorMessage, which shadows the helper.
airtimeExtractVTPassErrorMessage(response) ==
    LET d == response.o IN
    IF response.kind = "null" THEN "Unknown VTPass error"
    ELSE IF Truthy(d.error_message)
         THEN WithSuggestedAction(d, d.error_message)
    ELSE IF d.code = "016"
         THEN IF d.status = "failed"
              THEN "Transaction failed: " \o OrElse(d.response_description, "Unknown reason")
                   \o ". Please try again or contact support."
              ELSE OrElse(d.response_description, "Transaction failed on VTPass")
    ELSE IF d.code = "014"
         THEN "Insufficient funds at the provider. Please try again later or contact support."
    ELSE IF d.code = "009"
         THEN "Duplicate transaction detected. Please check if your previous transaction was successful before trying again."
    ELSE OrElse(d.response_description, "Error processing transaction")

\* The source of the message each extractor returns: the branch it takes.
CodeSpecific == {"099", "016", "014", "010", "009", "018", "020", "021", "025", "026"}

extractVTPassErrorKind(response) ==
    LET d == response.o IN
    IF d.code = "000" /\ Includes(d.response_description, "SUCCESSFUL") THEN "success"
    ELSE IF d.code \in CodeSpecific THEN "code"
    ELSE IF Truthy(d.error_message) THEN "error_message"
    ELSE IF Truthy(d.response_description) THEN "response_description"
    ELSE "default"

airtimeExtractVTPassErrorKind(response) ==
    LET d == response.o IN
    IF response.kind = "null" THEN "default"
    ELSE IF Truthy(d.error_message) THEN "error_message"
    ELSE IF d.code \in {"016", "014", "009"} THEN "code"
    ELSE IF Truthy(d.response_description) THEN "response_description"
    ELSE "default"

\* The inline success test of the data screen's handlePurchaseWithData.
dataIsSuccess(response) ==
    /\ response.kind = "obj"
    /\ \/ response.o.code = "000"
       \/ response.o.code = "01"
       \/ /\ Truthy(response.o.response_description)
          /\ Includes(response.o.response_description, "SUCCESSFUL")

(***************************************************************************)
(* Request ids.  Date.now() is the model clock `now`; Math.random()        *)
(* .toString(36).substring(2, 7) is one of NumRandom suffixes.             *)
(***************************************************************************)
NumRandom == 1
MaxClock == 1

RandomSuffix(i) == "x" \o ToString(i)
RandomSuffixes == {RandomSuffix(i) : i \in 1..NumRandom}

generateUniqueRequestId(prefix, timestamp, randomStr) ==
    prefix \o "-" \o ToString(timestamp) \o "-" \o randomStr

\* The request id the data screen builds in handleRetryTransaction.
dataRetryRequestId(timestamp, count, randomStr) ==
    "data-" \o ToString(timestamp) \o "-retry-" \o ToString(count) \o randomStr

Screens == {"airtime", "data", "exam", "cable-tv", "electricity"}

PurchasePrefix(s) ==
    CASE s = "airtime" -> "air"
      [] s = "data" -> "data"
      [] s = "exam" -> "exam"
      [] s = "cable-tv" -> "cable-tv"
      [] s = "electricity" -> "electricity"

RetryPrefix(s) ==
    CASE s = "airtime" -> "air-retry"
      [] s = "exam" -> "exam-retry"
      [] s = "cable-tv" -> "cable-retry"
      [] s = "electricity" -> "elect-retry"

(***************************************************************************)
(* State.                                                                  *)
(***************************************************************************)
VARIABLES
    screen,                \* the purchase screen that is mounted
    isAuthenticated,       \* useAuth().isAuthenticated seen by the provider
    form,                  \* the purchase fields in the form; 0 = empty
    isPurchasing,
    transactionFailed,
    transactionSuccessful,
    retryCount,            \* airtime and data screens only
    failedTransaction,     \* the stored request, NoTransaction = null
    failedMessage,         \* the message state the outcome branch sets:
                           \* errorMessage (airtime) / failedMessage (others)
    inflight,              \* makePurchase calls that have not resolved
    now,                   \* Date.now()
    submissions,           \* submissions made since the last handlePurchase started a session
    keyReused,             \* a retry was sent with the request id stored with the failed attempt
    last,                  \* what the last resolved attempt did
    raw,                   \* single-attempt pipeline: the aggregator payload
    stage,                 \* single-attempt pipeline: position
    provResult,            \* single-attempt pipeline: what makePurchase resolved with
    storedStatus,          \* transaction detail view: the status field of the stored record
    detail,                \* transaction detail view: what processTransaction derived
    ids,                   \* request ids generated by successive generateUniqueRequestId calls
    balance,               \* single-attempt pipeline: the screen's balance state
    providerBalance,       \* single-attempt pipeline: the balance state of VTPassProvider
    profileBalance,        \* single-attempt pipeline: userProfile.vtpass_balance
    reads,                 \* single-attempt pipeline: the values the backend returned
    refresh,               \* single-attempt pipeline: how the last balance refresh ended
    caller,                \* timed call: "purchase" (makePurchase) or "request" (plain apiRequest)
    net,                   \* timed call: the network step apiRequest is waiting for
    tokens,                \* timed call: what auth_tokens in localStorage holds
    abortTimer,            \* timed call: the 30 s timer of makePurchase
    watchdog,              \* timed call: the purchaseTimeout timer of the airtime screen
    captured,              \* timed call: isPurchasing as the running handlePurchase closure sees it
    pathname,              \* route guard: request.nextUrl.pathname
    accessToken,           \* route guard: the access_token cookie
    authTokens,            \* route guard: the auth_tokens cookie
    pinSet,                \* route guard: the pin_set cookie
    hops                   \* route guard: redirects followed so far

vars == <<screen, isAuthenticated, form, isPurchasing, transactionFailed,
          transactionSuccessful, retryCount, failedTransaction, failedMessage,
          inflight, now, submissions, keyReused, last, raw, stage,
          provResult, storedStatus, detail, ids, balance, providerBalance,
          profileBalance, reads, refresh, caller, net, tokens, abortTimer,
          watchdog, captured, pathname, accessToken, authTokens, pinSet, hops>>

uiVars == <<isPurchasing, transactionFailed, transactionSuccessful, retryCount,
            failedTransaction, failedMessage, form>>

balanceVars == <<balance, providerBalance, profileBalance, reads, refresh>>

guardVars == <<pathname, accessToken, authTokens, pinSet, hops>>

callVars == <<caller, net, tokens, abortTimer, watchdog, captured>>

flowVars == <<raw, stage, provResult, storedStatus, detail, ids, balance,
              providerBalance, profileBalance, reads, refresh, caller, net,
              tokens, abortTimer, watchdog, captured, pathname, accessToken,
              authTokens, pinSet, hops>>

NumForms == 2
MaxInFlight == 2
MaxSubmissions == 5
MAX_RETRIES == 3

NoTransaction == [fields |-> 0, request_id |-> ""]
Request(fields, id) == [fields |-> fields, request_id |-> id]

NoProvResult ==
    [settled |-> "none", ret |-> NullResp, toasts |-> <<>>, refreshes |-> 0, calls |-> 0]
NoDetail == [apiStatus |-> "Unknown", deliveredStatus |-> "Unknown", status |-> Undef]
NoAttempt ==
    [done |-> FALSE, raw |-> NullResp, success |-> FALSE,
     failed |-> FALSE, toasts |-> <<>>, refreshes |-> 0, calls |-> 0]

\* The payloads the screen state machine draws responses from.
RawSamples ==
    { NullResp,
      ObjResp([EmptyObj EXCEPT !.code = "000", !.response_description = "TRANSACTION SUCCESSFUL"]),
      ObjResp([EmptyObj EXCEPT !.code = "000", !.response_description = "TRANSACTION SUCCESSFUL",
                               !.txn = "successful", !.amount = "100.00"]),
      ObjResp([EmptyObj EXCEPT !.code = "016", !.response_description = "TRANSACTION FAILED"]),
      ObjResp([EmptyObj EXCEPT !.code = "099"]),
      [kind |-> "obj", o |-> EmptyObj, hasResponse |-> TRUE,
       r |-> [EmptyObj EXCEPT !.code = "010"]],
      NetworkErrorResp }

(***************************************************************************)
(* What a screen does with the value makePurchase resolved with.           *)
(***************************************************************************)
ScreenSuccess(s, response) ==
    IF s = "data" THEN dataIsSuccess(response) ELSE isVTPassSuccess(response)

ScreenErrorMessage(s, response) ==
    IF s = "airtime" THEN airtimeExtractVTPassErrorMessage(response)
    ELSE extractVTPassErrorMessage(response)

\* Balance refreshes the screen starts for a response (fetchBalance or its
\* own refreshBalance).
ScreenRefreshes(s, response) ==
    IF ~ScreenSuccess(s, response) THEN 0
    ELSE IF s = "data" THEN (IF Truthy(response.o.amount) THEN 1 ELSE 0)
    ELSE 1

\* Toasts the screen raises for a response; refreshBalance of the exam,
\* cable TV and electricity screens raises "Balance refreshed".
ScreenToasts(s, response) ==
    IF ~ScreenSuccess(s, response) THEN <<"error">>
    ELSE IF s \in {"airtime", "data"} THEN <<"success">>
    ELSE <<"success", "success">>

\* The attempt record of a resolved call.
Observe(s, req, payload, pr) ==
    [done |-> TRUE, raw |-> payload,
     success |-> ScreenSuccess(s, pr.ret),
     failed |-> ~ScreenSuccess(s, pr.ret),
     toasts |-> pr.toasts \o ScreenToasts(s, pr.ret),
     refreshes |-> pr.refreshes + ScreenRefreshes(s, pr.ret),
     calls |-> pr.calls]

\* The state updates of the outcome branch of handlePurchaseWithData
\* (airtime, data) and of handlePurchase / handleRetry (other screens).
OutcomeEffects(req, isRetry, pr) ==
    LET ok == ScreenSuccess(screen, pr.ret) IN
    /\ isPurchasing' = FALSE
    /\ transactionSuccessful' = IF ok THEN TRUE ELSE transactionSuccessful
    /\ transactionFailed' = IF ok THEN transactionFailed ELSE TRUE
    /\ form' = IF ok /\ screen \in {"airtime", "data"} THEN 0 ELSE form
    /\ failedMessage' = IF ok THEN failedMessage ELSE ScreenErrorMessage(screen, pr.ret)
    /\ failedTransaction' =
         IF ok THEN failedTransaction
         ELSE IF screen \in {"airtime", "data"} THEN req
         ELSE IF isRetry THEN failedTransaction
         ELSE req
    /\ UNCHANGED retryCount

(***************************************************************************)
(* The wallet balance.  The screen keeps a balance state that its mount    *)
(* effect loaded; VTPassProvider keeps its own, null until fetchBalance    *)
(* has run.  A read of the balance endpoint returns a backend value, or    *)
(* fails, and then getVTPassBalance falls back to 0.                       *)
(***************************************************************************)
NoBalance == -1
ReadFailed == -2
MountBalance == 1000
BackendBalances == {900, 1000}
\* /users/balance/ answered without a balance property.
ReadMissing == -3
BalanceReads == BackendBalances \cup {ReadFailed, ReadMissing}
ProfileBalances == {NoBalance, 900}

\* The price of the product the form selects.
AmountOf(fields) == 100 * fields

\* try { body } catch { handler }
Catch(body, handler) == IF body.tag = "throw" THEN handler ELSE body

BalanceReturned(b) == [tag |-> "return", balance |-> b]
BalanceThrown == [tag |-> "throw", balance |-> NoBalance]

\* The try block of getVTPassBalance: apiRequest('/users/balance/') and the
\* four shapes it accepts.  A backend value stands for data.balance and for
\* a direct balance alike; both branches return the same number.
getVTPassBalanceBody(read) ==
    IF read = ReadFailed THEN BalanceThrown
    ELSE IF read = ReadMissing THEN BalanceReturned(0)
    ELSE BalanceReturned(read)

\* getVTPassBalance without its catch block.
getVTPassBalanceUncaught(read) ==
    getVTPassBalanceBody(read)

getVTPassBalance(read) ==
    Catch(getVTPassBalanceBody(read), BalanceReturned(0))

\* VTPassProvider.fetchBalance, given what the balance endpoint returned:
\* whether it returned or threw, and the balance state it leaves.
fetchBalance(authenticated, read, current) ==
    IF ~authenticated THEN BalanceReturned(current)
    ELSE Catch(getVTPassBalance(read), BalanceReturned(0))

NoRefresh == [read |-> NoBalance, api |-> "none", provider |-> "none"]

\* The record of a refresh that read `read`.
Refreshed(authenticated, read, current) ==
    [read |-> read,
     api |-> getVTPassBalance(read).tag,
     provider |-> fetchBalance(authenticated, read, current).tag]

\* The screens whose success branch calls the provider's fetchBalance
\* (directly, or through their refreshBalance).
ScreenFetches(s, response) ==
    /\ ScreenSuccess(s, response)
    /\ CASE s = "airtime" -> TRUE
         [] s = "data" -> Truthy(response.o.amount)
         [] s = "exam" -> FALSE
         [] OTHER -> TRUE

\* An optimistic update, which no screen performs: the price of the product
\* is taken off the displayed balance as soon as the purchase succeeds.
ScreenBalanceOptimistic(s, response, req, profile, current) ==
    IF ScreenSuccess(s, response) THEN current - AmountOf(req.fields) ELSE current

\* The screen's balance state after the outcome branch: refreshBalance of
\* the exam, cable TV and electricity screens sets it from the profile.
ScreenBalance(s, response, req, profile, current) ==
    IF ScreenSuccess(s, response) /\ s \in {"exam", "cable-tv", "electricity"}
    THEN IF profile # NoBalance THEN profile ELSE 0
    ELSE current

(***************************************************************************)
(* The purchase / retry state machine of a screen.                         *)
(***************************************************************************)
Init ==
    /\ screen \in Screens
    /\ isAuthenticated \in BOOLEAN
    /\ form = 0
    /\ isPurchasing = FALSE
    /\ transactionFailed = FALSE
    /\ transactionSuccessful = FALSE
    /\ retryCount = 0
    /\ failedTransaction = NoTransaction
    /\ failedMessage = ""
    /\ inflight = <<>>
    /\ now = 0
    /\ submissions = 0
    /\ keyReused = FALSE
    /\ last = NoAttempt
    /\ raw = NullResp
    /\ stage = "off"
    /\ provResult = NoProvResult
    /\ balance = MountBalance
    /\ providerBalance = NoBalance
    /\ profileBalance = NoBalance
    /\ reads = {MountBalance}
    /\ refresh = NoRefresh
    /\ caller = "purchase"
    /\ net = "idle"
    /\ tokens = "both"
    /\ abortTimer = "off"
    /\ watchdog = "off"
    /\ captured = FALSE
    /\ pathname = "/"
    /\ accessToken = Undef
    /\ authTokens = Undef
    /\ pinSet = Undef
    /\ hops = 0
    /\ storedStatus = Undef
    /\ detail = NoDetail
    /\ ids = <<>>

\* The exam, cable TV and electricity screens render exactly one of the
\* success card, the failure card and the purchase form.
FormVisible ==
    \/ screen \in {"airtime", "data"}
    \/ ~transactionSuccessful /\ ~transactionFailed

FailureCardVisible ==
    IF screen \in {"airtime", "data"} THEN transactionFailed
    ELSE ~transactionSuccessful /\ transactionFailed

\* The text of the failure card.  The airtime card shows the message state
\* of the outcome branch.  The data card shows errorMessage, a state that
\* screen only ever sets to "".  The other cards show
\* failedMessage || errorMessage || a fixed text.
CardDefaultMessage == "We couldn't process your payment. Please try again."

CardMessage ==
    CASE screen = "airtime" -> failedMessage
      [] screen = "data" -> ""
      [] OTHER -> OrElse(failedMessage, OrElse("", CardDefaultMessage))

\* The purchase button: rendered with the form, disabled by isPurchasing and
\* by missing fields.
PurchaseEnabled == FormVisible /\ ~isPurchasing /\ form # 0

\* The retry button of each screen's failure card.
RetryEnabled ==
    /\ FailureCardVisible
    /\ CASE screen = "airtime" -> retryCount < MAX_RETRIES /\ ~isPurchasing
         [] screen = "data" -> ~isPurchasing /\ retryCount < MAX_RETRIES
         [] screen = "exam" -> failedTransaction # NoTransaction /\ ~isPurchasing
         [] OTHER -> failedTransaction # NoTransaction

\* The user fills in or changes the form.
EditForm ==
    /\ stage = "off"
    /\ FormVisible
    /\ \E f \in 1..NumForms : form' = f /\ f # form
    /\ UNCHANGED <<screen, isAuthenticated, isPurchasing, transactionFailed,
                   transactionSuccessful, retryCount, failedTransaction,
                   failedMessage, inflight, now, submissions, keyReused, last>>
    /\ UNCHANGED flowVars

\* Time passes.
Tick ==
    /\ stage = "off"
    /\ now < MaxClock
    /\ now' = now + 1
    /\ UNCHANGED <<screen, isAuthenticated, inflight, submissions, keyReused, last>>
    /\ UNCHANGED uiVars
    /\ UNCHANGED flowVars

\* The state handlePurchase of each screen sets before it submits.
PurchaseStartEffects ==
    CASE screen = "airtime" ->
              \* clearFailedState(); setIsPurchasing(true)
              /\ transactionFailed' = FALSE
              /\ failedMessage' = ""
              /\ retryCount' = 0
              /\ failedTransaction' = NoTransaction
              /\ isPurchasing' = TRUE
              /\ UNCHANGED transactionSuccessful
         [] screen = "data" ->
              \* no state is set before handlePurchaseWithData is called
              UNCHANGED <<transactionFailed, failedMessage, retryCount,
                          failedTransaction, isPurchasing, transactionSuccessful>>
         [] screen = "exam" ->
              /\ isPurchasing' = TRUE
              /\ transactionFailed' = FALSE
              /\ UNCHANGED <<failedMessage, retryCount, failedTransaction,
                             transactionSuccessful>>
         [] OTHER ->
              /\ isPurchasing' = TRUE
              /\ transactionFailed' = FALSE
              /\ transactionSuccessful' = FALSE
              /\ failedMessage' = ""
              /\ UNCHANGED <<retryCount, failedTransaction>>

\* handlePurchase of each screen, up to the makePurchase call it awaits.
handlePurchase ==
    /\ stage = "off"
    /\ PurchaseEnabled
    /\ Len(inflight) < MaxInFlight
    /\ \E rnd \in RandomSuffixes :
         LET id == generateUniqueRequestId(PurchasePrefix(screen), now, rnd)
             req == Request(form, id)
         IN  /\ inflight' = Append(inflight, [req |-> req, isRetry |-> FALSE])
             /\ submissions' = 1
             /\ UNCHANGED keyReused
    /\ PurchaseStartEffects
    /\ last' = NoAttempt
    /\ UNCHANGED <<screen, isAuthenticated, form, now>>
    /\ UNCHANGED flowVars

\* handleRetryTransaction of the airtime screen.
airtimeHandleRetryTransaction ==
    /\ stage = "off"
    /\ screen = "airtime"
    /\ RetryEnabled
    /\ failedTransaction # NoTransaction
    /\ submissions < MaxSubmissions
    /\ retryCount' = retryCount + 1
    /\ isPurchasing' = TRUE
    /\ transactionFailed' = FALSE
    /\ failedMessage' = ""
    /\ \E rnd \in RandomSuffixes :
         LET id == generateUniqueRequestId(RetryPrefix(screen), now, rnd)
             req == Request(failedTransaction.fields, id)
         IN  /\ inflight' = Append(inflight, [req |-> req, isRetry |-> TRUE])
             /\ submissions' = submissions + 1
             /\ keyReused' = (keyReused \/ id = failedTransaction.request_id)
    /\ last' = NoAttempt
    /\ UNCHANGED <<screen, isAuthenticated, form, transactionSuccessful,
                   failedTransaction, now>>
    /\ UNCHANGED flowVars

\* handleRetryTransaction of the data screen: the request is rebuilt from the
\* form; with no bundle selected it only clears the failure card.
dataHandleRetryTransaction ==
    /\ stage = "off"
    /\ screen = "data"
    /\ RetryEnabled
    /\ submissions < MaxSubmissions
    /\ Len(inflight) < MaxInFlight
    /\ transactionFailed' = FALSE
    /\ IF form = 0
       THEN UNCHANGED <<inflight, submissions, keyReused, failedTransaction,
                       retryCount, last>>
       ELSE /\ \E rnd \in RandomSuffixes :
                 LET id == dataRetryRequestId(now, retryCount, rnd)
                     req == Request(form, id)
                 IN  /\ inflight' = Append(inflight, [req |-> req, isRetry |-> TRUE])
                     /\ submissions' = submissions + 1
                     /\ keyReused' = (keyReused \/ id = failedTransaction.request_id)
            /\ failedTransaction' = NoTransaction
            /\ retryCount' = retryCount + 1
            /\ last' = NoAttempt
    \* setErrorMessage("") clears the errorMessage state, which is never set
    \* to anything else on this screen; failedMessage is left as it is
    /\ UNCHANGED <<screen, isAuthenticated, form, isPurchasing,
                   transactionSuccessful, failedMessage, now>>
    /\ UNCHANGED flowVars

\* handleRetry of the exam, cable TV and electricity screens.
handleRetry ==
    /\ stage = "off"
    /\ screen \in {"exam", "cable-tv", "electricity"}
    /\ RetryEnabled
    /\ failedTransaction # NoTransaction
    /\ submissions < MaxSubmissions
    /\ isPurchasing' = TRUE
    /\ transactionFailed' = FALSE
    /\ \E rnd \in RandomSuffixes :
         LET id == generateUniqueRequestId(RetryPrefix(screen), now, rnd)
             req == Request(failedTransaction.fields, id)
         IN  /\ inflight' = Append(inflight, [req |-> req, isRetry |-> TRUE])
             /\ submissions' = submissions + 1
             /\ keyReused' = (keyReused \/ id = failedTransaction.request_id)
    /\ last' = NoAttempt
    /\ UNCHANGED <<screen, isAuthenticated, form, transactionSuccessful,
                   retryCount, failedTransaction, failedMessage, now>>
    /\ UNCHANGED flowVars

RemoveAt(seq, i) == [j \in 1..(Len(seq) - 1) |-> IF j < i THEN seq[j] ELSE seq[j + 1]]

\* A makePurchase call resolves and the awaiting handler runs its outcome
\* branch.
Resolve ==
    /\ stage = "off"
    /\ \E i \in 1..Len(inflight) :
       \E payload \in (IF isAuthenticated THEN RawSamples ELSE {NullResp}) :
         LET call == inflight[i]
             pr == makePurchase(isAuthenticated, payload)
         IN  /\ OutcomeEffects(call.req, call.isRetry, pr)
             /\ last' = Observe(screen, call.req, payload, pr)
             /\ inflight' = RemoveAt(inflight, i)
    /\ UNCHANGED <<screen, isAuthenticated, now, submissions, keyReused>>
    /\ UNCHANGED flowVars

\* clearFailedState of the data screen (the Dismiss button).
dataClearFailedState ==
    /\ stage = "off"
    /\ screen = "data"
    /\ FailureCardVisible
    /\ transactionFailed' = FALSE
    /\ retryCount' = 0
    /\ UNCHANGED <<screen, isAuthenticated, form, isPurchasing,
                   transactionSuccessful, failedTransaction, failedMessage,
                   inflight, now, submissions, keyReused, last>>
    /\ UNCHANGED flowVars

\* The exam screen's "Try Again" button of the failure card.
examTryAgain ==
    /\ stage = "off"
    /\ screen = "exam"
    /\ FailureCardVisible
    /\ transactionFailed' = FALSE
    /\ failedTransaction' = NoTransaction
    /\ UNCHANGED <<screen, isAuthenticated, form, isPurchasing,
                   transactionSuccessful, retryCount, failedMessage,
                   inflight, now, submissions, keyReused, last>>
    /\ UNCHANGED flowVars

\* The exam screen's "Make Another Purchase" button of the success card.
examMakeAnotherPurchase ==
    /\ stage = "off"
    /\ screen = "exam"
    /\ transactionSuccessful
    /\ transactionSuccessful' = FALSE
    /\ UNCHANGED <<screen, isAuthenticated, form, isPurchasing,
                   transactionFailed, retryCount, failedTransaction,
                   failedMessage, inflight, now, submissions, keyReused, last>>
    /\ UNCHANGED flowVars

\* resetForm of the cable TV and electricity screens.
resetForm ==
    /\ stage = "off"
    /\ screen \in {"cable-tv", "electricity"}
    /\ transactionSuccessful \/ transactionFailed
    /\ transactionSuccessful' = FALSE
    /\ transactionFailed' = FALSE
    /\ form' = 0
    /\ failedMessage' = ""
    /\ failedTransaction' = NoTransaction
    /\ UNCHANGED <<screen, isAuthenticated, isPurchasing, retryCount,
                   inflight, now, submissions, keyReused, last>>
    /\ UNCHANGED flowVars

Next ==
    \/ EditForm
    \/ Tick
    \/ handlePurchase
    \/ airtimeHandleRetryTransaction
    \/ dataHandleRetryTransaction
    \/ handleRetry
    \/ Resolve
    \/ dataClearFailedState
    \/ examTryAgain
    \/ examMakeAnotherPurchase
    \/ resetForm

Spec == Init /\ [][Next]_vars

(***************************************************************************)
(* One purchase attempt, step by step, over every enumerated payload: the  *)
(* state right after handlePurchase submitted the form, then makePurchase  *)
(* resolving, then the screen's outcome branch.                            *)
(***************************************************************************)
FlowInit ==
    /\ screen \in Screens
    /\ isAuthenticated \in BOOLEAN
    /\ raw \in (IF isAuthenticated THEN RawResponses ELSE {NullResp})
    /\ form = 1
    /\ isPurchasing = (screen # "data")
    /\ transactionFailed = FALSE
    /\ transactionSuccessful = FALSE
    /\ retryCount = 0
    /\ failedTransaction = NoTransaction
    /\ failedMessage = ""
    /\ now = 0
    /\ inflight = << [req |-> Request(1, generateUniqueRequestId(PurchasePrefix(screen), 0,
                                                                RandomSuffix(1))),
                      isRetry |-> FALSE] >>
    /\ submissions = 1
    /\ keyReused = FALSE
    /\ last = NoAttempt
    /\ stage = "submitted"
    /\ provResult = NoProvResult
    /\ balance = MountBalance
    /\ providerBalance = NoBalance
    /\ profileBalance \in ProfileBalances
    /\ reads = {MountBalance} \cup ({profileBalance} \ {NoBalance})
    /\ refresh = NoRefresh
    /\ caller = "purchase"
    /\ net = "idle"
    /\ tokens = "both"
    /\ abortTimer = "off"
    /\ watchdog = "off"
    /\ captured = FALSE
    /\ pathname = "/"
    /\ accessToken = Undef
    /\ authTokens = Undef
    /\ pinSet = Undef
    /\ hops = 0
    /\ storedStatus = Undef
    /\ detail = NoDetail
    /\ ids = <<>>

\* makePurchase runs purchaseService on the payload and resolves; the
\* fetchBalance it starts on its success branch reads the balance endpoint.
FlowMakePurchase ==
    /\ stage = "submitted"
    /\ provResult' = makePurchase(isAuthenticated, raw)
    /\ stage' = "resolved"
    /\ IF makePurchase(isAuthenticated, raw).refreshes = 1
       THEN \E read \in BalanceReads :
              /\ providerBalance' =
                   fetchBalance(isAuthenticated, read, providerBalance).balance
              /\ reads' = reads \cup ({read} \ {ReadFailed, ReadMissing})
              /\ refresh' = Refreshed(isAuthenticated, read, providerBalance)
       ELSE UNCHANGED <<providerBalance, reads, refresh>>
    /\ UNCHANGED <<screen, isAuthenticated, inflight, now, submissions, keyReused,
                   last, raw, storedStatus, detail, ids, balance, profileBalance>>
    /\ UNCHANGED callVars
    /\ UNCHANGED guardVars
    /\ UNCHANGED uiVars

\* The awaiting handler runs its outcome branch.
FlowOutcome ==
    /\ stage = "resolved"
    /\ OutcomeEffects(inflight[1].req, inflight[1].isRetry, provResult)
    /\ last' = Observe(screen, inflight[1].req, raw, provResult)
    /\ inflight' = <<>>
    /\ stage' = "shown"
    /\ balance' = ScreenBalance(screen, provResult.ret, inflight[1].req, profileBalance,
                                balance)
    /\ IF ScreenFetches(screen, provResult.ret)
       THEN \E read \in BalanceReads :
              /\ providerBalance' =
                   fetchBalance(isAuthenticated, read, providerBalance).balance
              /\ reads' = reads \cup ({read} \ {ReadFailed, ReadMissing})
              /\ refresh' = Refreshed(isAuthenticated, read, providerBalance)
       ELSE UNCHANGED <<providerBalance, reads, refresh>>
    /\ UNCHANGED <<screen, isAuthenticated, now, submissions, keyReused, raw,
                   provResult, storedStatus, detail, ids, profileBalance>>
    /\ UNCHANGED callVars
    /\ UNCHANGED guardVars

FlowNext == FlowMakePurchase \/ FlowOutcome

FlowSpec == FlowInit /\ [][FlowNext]_vars

(***************************************************************************)
(* The transaction detail view: processTransaction applied to a stored     *)
(* record, whose response_data is the aggregator payload of the purchase.  *)
(***************************************************************************)
StoredStatuses == {Undef, "completed", "pending", "failed"}

StoredPayloads == {p \in RawResponses : p.kind = "obj"}

\* The statuses processTransaction derives before it builds its result.
deriveStatus(status, response_data) ==
    LET d == response_data.o
        ui0 == OrElse(status, "pending")
        byCode ==
            IF \/ d.code = "000"
               \/ (Truthy(d.response_description)
                     /\ Includes(d.response_description, "SUCCESSFUL"))
            THEN [apiStatus |-> "Delivered", deliveredStatus |-> "Successful",
                  status |-> "completed"]
            ELSE IF d.code = "099"
                 THEN [apiStatus |-> "Processing", deliveredStatus |-> "Pending",
                       status |-> ui0]
                 ELSE [apiStatus |-> "Failed", deliveredStatus |-> "Failed",
                       status |-> ui0]
        byContent ==
            IF Truthy(d.status)
            THEN IF d.status = "delivered"
                 THEN [apiStatus |-> "Delivered", deliveredStatus |-> d.status,
                       status |-> "completed"]
                 ELSE [byCode EXCEPT !.deliveredStatus = d.status]
            ELSE byCode
    IN  IF response_data.kind # "obj"
        THEN [apiStatus |-> "Unknown", deliveredStatus |-> "Unknown", status |-> ui0]
        ELSE IF byContent.apiStatus = "Delivered" /\ byContent.status = "failed"
             THEN [byContent EXCEPT !.status = "completed"]
             ELSE byContent

\* processTransaction returning the stored status field in place of the
\* status it derived.
processTransactionStoredStatus(status, response_data) ==
    [deriveStatus(status, response_data) EXCEPT !.status = OrElse(status, "pending")]

\* processTransaction: the result carries status: uiStatus, api_status:
\* apiStatus and delivered_status: deliveredStatus.
processTransaction(status, response_data) ==
    deriveStatus(status, response_data)

DetailInit ==
    /\ screen = "airtime"
    /\ isAuthenticated = TRUE
    /\ raw \in StoredPayloads
    /\ storedStatus \in StoredStatuses
    /\ detail = NoDetail
    /\ form = 0
    /\ isPurchasing = FALSE
    /\ transactionFailed = FALSE
    /\ transactionSuccessful = FALSE
    /\ retryCount = 0
    /\ failedTransaction = NoTransaction
    /\ failedMessage = ""
    /\ now = 0
    /\ inflight = <<>>
    /\ submissions = 0
    /\ keyReused = FALSE
    /\ last = NoAttempt
    /\ stage = "stored"
    /\ provResult = NoProvResult
    /\ balance = MountBalance
    /\ providerBalance = NoBalance
    /\ profileBalance = NoBalance
    /\ reads = {MountBalance}
    /\ refresh = NoRefresh
    /\ caller = "purchase"
    /\ net = "idle"
    /\ tokens = "both"
    /\ abortTimer = "off"
    /\ watchdog = "off"
    /\ captured = FALSE
    /\ pathname = "/"
    /\ accessToken = Undef
    /\ authTokens = Undef
    /\ pinSet = Undef
    /\ hops = 0
    /\ ids = <<>>

\* The detail page loads the record and processes it.
DetailProcess ==
    /\ stage = "stored"
    /\ detail' = processTransaction(storedStatus, raw)
    /\ stage' = "viewed"
    /\ UNCHANGED <<screen, isAuthenticated, inflight, now, submissions, keyReused,
                   last, raw, provResult, storedStatus, ids>>
    /\ UNCHANGED balanceVars
    /\ UNCHANGED guardVars
    /\ UNCHANGED callVars
    /\ UNCHANGED uiVars

DetailNext == DetailProcess

DetailSpec == DetailInit /\ [][DetailNext]_vars

(***************************************************************************)
(* generateUniqueRequestId called in immediate succession with one prefix. *)
(* Date.now() is the wall clock: it may return the value it returned       *)
(* before, or an earlier one.                                              *)
(***************************************************************************)
MaxIds == 2
NumIdRandom == 3

IdInit ==
    /\ screen \in Screens
    /\ isAuthenticated = TRUE
    /\ now \in 0..MaxClock
    /\ ids = <<>>
    /\ stage = "ids"
    /\ raw = NullResp
    /\ storedStatus = Undef
    /\ detail = NoDetail
    /\ form = 0
    /\ isPurchasing = FALSE
    /\ transactionFailed = FALSE
    /\ transactionSuccessful = FALSE
    /\ retryCount = 0
    /\ failedTransaction = NoTransaction
    /\ failedMessage = ""
    /\ inflight = <<>>
    /\ submissions = 0
    /\ keyReused = FALSE
    /\ last = NoAttempt
    /\ provResult = NoProvResult
    /\ balance = MountBalance
    /\ providerBalance = NoBalance
    /\ profileBalance = NoBalance
    /\ reads = {MountBalance}
    /\ refresh = NoRefresh
    /\ caller = "purchase"
    /\ net = "idle"
    /\ tokens = "both"
    /\ abortTimer = "off"
    /\ watchdog = "off"
    /\ captured = FALSE
    /\ pathname = "/"
    /\ accessToken = Undef
    /\ authTokens = Undef
    /\ pinSet = Undef
    /\ hops = 0

\* One call of generateUniqueRequestId(prefix).
IdGenerate ==
    /\ stage = "ids"
    /\ Len(ids) < MaxIds
    /\ \E timestamp \in 0..MaxClock, i \in 1..NumIdRandom :
         /\ now' = timestamp
         /\ ids' = Append(ids, generateUniqueRequestId(PurchasePrefix(screen), timestamp,
                                                       RandomSuffix(i)))
    /\ UNCHANGED <<screen, isAuthenticated, inflight, submissions, keyReused,
                   last, raw, stage, provResult, storedStatus, detail>>
    /\ UNCHANGED balanceVars
    /\ UNCHANGED guardVars
    /\ UNCHANGED callVars
    /\ UNCHANGED uiVars

IdNext == IdGenerate

IdSpec == IdInit /\ [][IdNext]_vars

(***************************************************************************)
(* One call in time.  A purchase goes from handlePurchase through          *)
(* makePurchase, which arms a 30 s timer that aborts the signal it hands   *)
(* to purchaseService and apiRequest; the airtime screen arms its own      *)
(* 25 s purchaseTimeout.  apiRequest waits for its fetch and, after a 401, *)
(* for the fetch of refreshToken, which takes no signal, and then sends    *)
(* the request again.  A plain request is apiRequest called without a      *)
(* signal, as getVTPassBalance calls it.  `now` counts seconds from the    *)
(* start of the call; a timer that is due fires before more time passes.   *)
(***************************************************************************)
WATCHDOG_SECONDS == 25
ABORT_SECONDS == 30
ClockStep == 5
MaxCallClock == 40

WatchdogMessage ==
    "The request is taking too long. Please check your connection and try again."

Callers == {"purchase", "request"}
TokenStates == {"both", "access", "none"}

\* What the server may answer to the request.
ServerAnswers == {"ok", "401", "500", "network"}

\* What the server may answer to the token refresh.
RefreshAnswers == {"ok", "rejected", "network"}

\* The payloads of a 2xx answer.
OkPayloads == {p \in RawSamples : p.kind \in {"null", "obj"}}

CallInit ==
    /\ caller \in Callers
    /\ screen \in (IF caller = "purchase" THEN Screens ELSE {"airtime"})
    /\ isAuthenticated \in (IF caller = "purchase" THEN BOOLEAN ELSE {TRUE})
    /\ tokens \in TokenStates
    /\ form = 1
    /\ isPurchasing = FALSE
    /\ transactionFailed = FALSE
    /\ transactionSuccessful = FALSE
    /\ retryCount = 0
    /\ failedTransaction = NoTransaction
    /\ failedMessage = ""
    /\ inflight = <<>>
    /\ now = 0
    /\ submissions = 0
    /\ keyReused = FALSE
    /\ last = NoAttempt
    /\ raw = NullResp
    /\ stage = "form"
    /\ provResult = NoProvResult
    /\ balance = MountBalance
    /\ providerBalance = NoBalance
    /\ profileBalance = NoBalance
    /\ reads = {MountBalance}
    /\ refresh = NoRefresh
    /\ storedStatus = Undef
    /\ detail = NoDetail
    /\ ids = <<>>
    /\ net = "idle"
    /\ abortTimer = "off"
    /\ watchdog = "off"
    /\ captured = FALSE
    /\ pathname = "/"
    /\ accessToken = Undef
    /\ authTokens = Undef
    /\ pinSet = Undef
    /\ hops = 0

\* handlePurchase of the screen runs up to its await: the handler is the
\* closure of the render that enabled the button, so the isPurchasing it
\* reads later is the value of that render.  makePurchase returns null at
\* once when the provider is not authenticated.
CallHandlePurchase ==
    /\ stage = "form"
    /\ caller = "purchase"
    /\ PurchaseEnabled
    /\ captured' = isPurchasing
    /\ PurchaseStartEffects
    /\ watchdog' = IF screen = "airtime" THEN "armed" ELSE "off"
    /\ inflight' = <<[req |-> Request(form, generateUniqueRequestId(PurchasePrefix(screen),
                                                                    now, RandomSuffix(1))),
                      isRetry |-> FALSE]>>
    /\ submissions' = 1
    /\ stage' = "calling"
    /\ IF isAuthenticated
       THEN net' = "fetching" /\ abortTimer' = "armed"
       ELSE net' = "done" /\ abortTimer' = "off"
    /\ UNCHANGED <<screen, isAuthenticated, form, now, keyReused, last, raw, provResult,
                   storedStatus, detail, ids, caller, tokens>>
    /\ UNCHANGED balanceVars
    /\ UNCHANGED guardVars

\* apiRequest is called without a signal.
CallRequest ==
    /\ stage = "form"
    /\ caller = "request"
    /\ stage' = "calling"
    /\ net' = "fetching"
    /\ UNCHANGED <<screen, isAuthenticated, inflight, now, submissions, keyReused, last,
                   raw, provResult, storedStatus, detail, ids, caller, tokens,
                   abortTimer, watchdog, captured>>
    /\ UNCHANGED balanceVars
    /\ UNCHANGED guardVars
    /\ UNCHANGED uiVars

\* refreshToken, given the answer to its fetch: whether it returns true, and
\* the tokens it leaves in localStorage.
refreshToken(held, answer) ==
    IF held # "both" THEN [ok |-> FALSE, tokens |-> held]
    ELSE IF answer = "ok" THEN [ok |-> TRUE, tokens |-> "both"]
    ELSE [ok |-> FALSE, tokens |-> "none"]

\* The fetch of apiRequest settles.
ServerAnswer ==
    /\ stage = "calling"
    /\ net = "fetching"
    /\ \E answer \in ServerAnswers :
         CASE answer = "ok" ->
                \E p \in OkPayloads : net' = "done" /\ raw' = p /\ UNCHANGED tokens
           [] answer = "401" ->
                IF tokens = "both"
                THEN \* refreshToken sends its own fetch
                     net' = "refreshing" /\ UNCHANGED <<raw, tokens>>
                ELSE \* refreshToken returns false without a fetch
                     /\ net' = "done"
                     /\ raw' = SessionExpiredResp
                     /\ tokens' = refreshToken(tokens, "rejected").tokens
           [] answer = "500" ->
                net' = "done" /\ raw' = HttpErrorResp /\ UNCHANGED tokens
           [] OTHER ->
                net' = "done" /\ raw' = NetworkErrorResp /\ UNCHANGED tokens
    /\ UNCHANGED <<screen, isAuthenticated, inflight, now, submissions, keyReused, last,
                   provResult, storedStatus, detail, ids, stage, caller,
                   abortTimer, watchdog, captured>>
    /\ UNCHANGED balanceVars
    /\ UNCHANGED guardVars
    /\ UNCHANGED uiVars

\* The fetch of refreshToken settles; after a successful refresh apiRequest
\* calls itself with the same arguments, and a fetch with an aborted signal
\* rejects at once.
RefreshAnswer ==
    /\ stage = "calling"
    /\ net = "refreshing"
    /\ \E answer \in RefreshAnswers :
         LET res == refreshToken(tokens, answer) IN
         /\ tokens' = res.tokens
         /\ IF res.ok
            THEN IF abortTimer = "fired"
                 THEN net' = "done" /\ raw' = AbortedResp
                 ELSE net' = "fetching" /\ UNCHANGED raw
            ELSE net' = "done" /\ raw' = SessionExpiredResp
    /\ UNCHANGED <<screen, isAuthenticated, inflight, now, submissions, keyReused, last,
                   provResult, storedStatus, detail, ids, stage, caller,
                   abortTimer, watchdog, captured>>
    /\ UNCHANGED balanceVars
    /\ UNCHANGED guardVars
    /\ UNCHANGED uiVars

AbortDue == abortTimer = "armed" /\ now >= ABORT_SECONDS
WatchdogDue == watchdog = "armed" /\ now >= WATCHDOG_SECONDS

\* Time passes while the call is pending.
CallTick ==
    /\ stage = "calling"
    /\ net # "done"
    /\ now < MaxCallClock
    /\ ~AbortDue
    /\ ~WatchdogDue
    /\ now' = now + ClockStep
    /\ UNCHANGED <<screen, isAuthenticated, inflight, submissions, keyReused, last, raw,
                   provResult, storedStatus, detail, ids, stage>>
    /\ UNCHANGED callVars
    /\ UNCHANGED balanceVars
    /\ UNCHANGED guardVars
    /\ UNCHANGED uiVars

\* The timer of makePurchase fires: controller.abort() rejects the fetch
\* that holds the signal.
AbortFires ==
    /\ stage = "calling"
    /\ AbortDue
    /\ abortTimer' = "fired"
    /\ IF net = "fetching"
       THEN net' = "done" /\ raw' = AbortedResp
       ELSE UNCHANGED <<net, raw>>
    /\ UNCHANGED <<screen, isAuthenticated, inflight, now, submissions, keyReused, last,
                   provResult, storedStatus, detail, ids, stage, caller, tokens,
                   watchdog, captured>>
    /\ UNCHANGED balanceVars
    /\ UNCHANGED guardVars
    /\ UNCHANGED uiVars

\* The purchaseTimeout callback of the airtime screen runs.
WatchdogFires ==
    /\ stage = "calling"
    /\ WatchdogDue
    /\ watchdog' = "fired"
    /\ IF captured
       THEN /\ isPurchasing' = FALSE
            /\ transactionFailed' = TRUE
            /\ failedMessage' = WatchdogMessage
       ELSE UNCHANGED <<isPurchasing, transactionFailed, failedMessage>>
    /\ UNCHANGED <<screen, isAuthenticated, form, transactionSuccessful, retryCount,
                   failedTransaction, inflight, now, submissions, keyReused, last, raw,
                   provResult, storedStatus, detail, ids, stage, caller, net, tokens,
                   abortTimer, captured>>
    /\ UNCHANGED balanceVars
    /\ UNCHANGED guardVars

\* apiRequest has settled.  makePurchase clears its timer and resolves, the
\* screen runs its outcome branch, and handlePurchase of the airtime screen
\* clears purchaseTimeout.  A plain request just returns to its caller.
CallResolve ==
    /\ stage = "calling"
    /\ net = "done"
    /\ IF caller = "purchase"
       THEN LET pr == makePurchase(isAuthenticated, raw) IN
            /\ provResult' = pr
            /\ OutcomeEffects(inflight[1].req, FALSE, pr)
            /\ last' = Observe(screen, inflight[1].req, raw, pr)
            /\ inflight' = <<>>
            /\ abortTimer' = IF abortTimer = "armed" THEN "cleared" ELSE abortTimer
            /\ watchdog' = IF watchdog = "armed" THEN "cleared" ELSE watchdog
            /\ stage' = "shown"
       ELSE /\ stage' = "returned"
            /\ UNCHANGED <<provResult, last, inflight, abortTimer, watchdog>>
            /\ UNCHANGED uiVars
    /\ UNCHANGED <<screen, isAuthenticated, now, submissions, keyReused, raw,
                   storedStatus, detail, ids, caller, net, tokens, captured>>
    /\ UNCHANGED balanceVars
    /\ UNCHANGED guardVars

CallNext ==
    \/ CallHandlePurchase
    \/ CallRequest
    \/ ServerAnswer
    \/ RefreshAnswer
    \/ CallTick
    \/ AbortFires
    \/ WatchdogFires
    \/ CallResolve

CallSpec == CallInit /\ [][CallNext]_vars

\* The same call when every fetch is answered and every due timer fires.
FairCallSpec ==
    /\ CallInit
    /\ [][CallNext]_vars
    /\ WF_vars(CallHandlePurchase)
    /\ WF_vars(CallRequest)
    /\ WF_vars(ServerAnswer)
    /\ WF_vars(RefreshAnswer)
    /\ WF_vars(CallTick)
    /\ WF_vars(AbortFires)
    /\ WF_vars(WatchdogFires)
    /\ WF_vars(CallResolve)

(***************************************************************************)
(* The route guard: middleware(request), and the browser following the     *)
(* redirects it answers with, sending the same cookies each time.          *)
(***************************************************************************)
MaxHops == 4

AuthPaths == {"/auth/login", "/auth/register", "/auth/forgot-password", "/auth/setpin"}
PublicPaths == {"/"} \cup AuthPaths

\* The request paths of the model.
Paths ==
    PublicPaths
    \cup {"/dashboard", "/dashboard/airtime", "/api/health", "/_next/data/build.json",
          "/favicon.ico", "/auth/setpin/help", "/dashboard/auth/setpin"}

\* String.prototype.startsWith and includes over the paths of the model.
PathStartsWith(p, prefix) ==
    CASE prefix = "/api/" -> p = "/api/health"
      [] OTHER -> FALSE

PathIncludes(p, needle) ==
    CASE needle = "/_next/" -> p = "/_next/data/build.json"
      [] needle = "/favicon.ico" -> p = "/favicon.ico"
      [] needle = "/auth/setpin" ->
           p \in {"/auth/setpin", "/auth/setpin/help", "/dashboard/auth/setpin"}
      [] OTHER -> FALSE

CookieValues == {Undef, "", "token"}
PinCookieValues == {Undef, "true", "false"}

isPublicPath(p) ==
    \/ p \in PublicPaths
    \/ PathStartsWith(p, "/api/")
    \/ PathIncludes(p, "/_next/")
    \/ PathIncludes(p, "/favicon.ico")

GuardAuthenticated(access, auth) == Truthy(access) \/ Truthy(auth)

Redirect(to) == [kind |-> "redirect", to |-> to]
PassThrough == [kind |-> "next", to |-> ""]

middleware(p, access, auth, pin) ==
    LET authenticated == GuardAuthenticated(access, auth)
        hasPinSet == (pin = "true")
    IN  IF ~isPublicPath(p) /\ ~authenticated
        THEN Redirect("/auth/login")
        ELSE IF /\ authenticated
                /\ ~hasPinSet
                /\ ~PathIncludes(p, "/auth/setpin")
                /\ ~isPublicPath(p)
        THEN Redirect("/auth/setpin")
        ELSE IF authenticated /\ p \in AuthPaths
        THEN IF p = "/auth/setpin" /\ ~hasPinSet
             THEN PassThrough
             ELSE Redirect("/dashboard")
        ELSE PassThrough

GuardInit ==
    /\ pathname \in Paths
    /\ accessToken \in CookieValues
    /\ authTokens \in CookieValues
    /\ pinSet \in PinCookieValues
    /\ hops = 0
    /\ stage = "routing"
    /\ screen = "airtime"
    /\ isAuthenticated = GuardAuthenticated(accessToken, authTokens)
    /\ form = 0
    /\ isPurchasing = FALSE
    /\ transactionFailed = FALSE
    /\ transactionSuccessful = FALSE
    /\ retryCount = 0
    /\ failedTransaction = NoTransaction
    /\ failedMessage = ""
    /\ inflight = <<>>
    /\ now = 0
    /\ submissions = 0
    /\ keyReused = FALSE
    /\ last = NoAttempt
    /\ raw = NullResp
    /\ provResult = NoProvResult
    /\ balance = MountBalance
    /\ providerBalance = NoBalance
    /\ profileBalance = NoBalance
    /\ reads = {MountBalance}
    /\ refresh = NoRefresh
    /\ storedStatus = Undef
    /\ detail = NoDetail
    /\ ids = <<>>
    /\ caller = "purchase"
    /\ net = "idle"
    /\ tokens = "both"
    /\ abortTimer = "off"
    /\ watchdog = "off"
    /\ captured = FALSE

\* The middleware answers with a redirect and the browser requests its
\* target.
GuardRedirect ==
    /\ stage = "routing"
    /\ hops < MaxHops
    /\ middleware(pathname, accessToken, authTokens, pinSet).kind = "redirect"
    /\ pathname' = middleware(pathname, accessToken, authTokens, pinSet).to
    /\ hops' = hops + 1
    /\ UNCHANGED <<screen, isAuthenticated, inflight, now, submissions, keyReused, last,
                   raw, stage, provResult, storedStatus, detail, ids, accessToken,
                   authTokens, pinSet>>
    /\ UNCHANGED balanceVars
    /\ UNCHANGED callVars
    /\ UNCHANGED uiVars

\* The middleware answers NextResponse.next().
GuardPass ==
    /\ stage = "routing"
    /\ middleware(pathname, accessToken, authTokens, pinSet).kind = "next"
    /\ stage' = "passed"
    /\ UNCHANGED <<screen, isAuthenticated, inflight, now, submissions, keyReused, last,
                   raw, provResult, storedStatus, detail, ids>>
    /\ UNCHANGED guardVars
    /\ UNCHANGED balanceVars
    /\ UNCHANGED callVars
    /\ UNCHANGED uiVars

GuardNext == GuardRedirect \/ GuardPass

GuardSpec == GuardInit /\ [][GuardNext]_vars

(***************************************************************************)
(* The outcome classes of the specification's ResponseNormalizer, used to  *)
(* state the properties below.                                             *)
(***************************************************************************)
FailureCodes == {"016", "010", "014", "018", "026", "009"}

HasSuccessMarker(p) ==
    /\ p.kind = "obj"
    /\ \/ p.o.code \in {"000", "01"}
       \/ SuccessStatus(p.o.status)
       \/ p.hasResponse /\ p.r.code = "000"
       \/ p.hasResponse /\ SuccessStatus(p.r.status)
       \/ Includes(p.o.response_description, "SUCCESSFUL")

HasPendingMarker(p) ==
    /\ p.kind = "obj"
    /\ \/ p.o.code = "099"
       \/ p.hasResponse /\ p.r.code = "099"

HasFailureMarker(p) ==
    /\ p.kind = "obj"
    /\ \/ p.o.code \in FailureCodes
       \/ p.o.status = "failed"
       \/ p.hasResponse /\ p.r.code \in FailureCodes
       \/ p.hasResponse /\ p.r.status = "failed"

NormalizedOutcome(p) ==
    IF p.kind \in {"abort", "network", "expired", "http"} THEN "Failed"
    ELSE IF HasSuccessMarker(p) THEN "Success"
    ELSE IF HasPendingMarker(p) THEN "Pending"
    ELSE IF HasFailureMarker(p) THEN "Failed"
    ELSE "Ambiguous"

\* C1 (precedence law): a payload with a success marker at any recognized
\* path is finally shown as a success by the screen, whatever failure-shaped
\* sibling fields it carries.
C1_SuccessMarkerWins ==
    (stage = "shown" /\ isAuthenticated /\ HasSuccessMarker(raw))
        => (last.success /\ transactionSuccessful)

\* C2 (single-flight): at most one makePurchase call of a screen is
\* unresolved at any time.
C2_SingleFlight ==
    isAuthenticated => Len(inflight) <= 1

\* C3 (retry ceiling): a session makes at most MAX_RETRIES + 1 submissions.
C3_RetryCeiling ==
    isAuthenticated => submissions <= MAX_RETRIES + 1

\* C4 (key freshness): no retry is sent with the request id stored with the
\* failed attempt it retries.
C4_FreshKey ==
    isAuthenticated => ~keyReused

\* C5 (terminal outcomes): after an attempt whose payload is a Success or a
\* Pending one, and with nothing in flight, the retry control is not armed.
C5_SuccessAndPendingTerminal ==
    (last.done /\ last.calls = 1 /\ Len(inflight) = 0
       /\ NormalizedOutcome(last.raw) \in {"Success", "Pending"})
        => ~RetryEnabled

\* C6 (reconcile exactly once): every attempt that reached an outcome
\* started exactly one balance refresh.
C6_ReconcileOnce ==
    (last.done /\ last.calls = 1) => last.refreshes = 1

\* C7 (no guessing): a payload with no recognized marker is shown neither as
\* a success nor as a definite failure.
C7_UnrecognizedIsAmbiguous ==
    (stage = "shown" /\ isAuthenticated /\ NormalizedOutcome(raw) = "Ambiguous")
        => (~last.success /\ ~last.failed /\ ~transactionFailed)

\* C8 (pending is not failed): a payload without success marker whose code
\* is the pending value does not put the screen in its transaction-failed
\* state.
C8_PendingNotFailed ==
    (stage = "shown" /\ isAuthenticated /\ ~HasSuccessMarker(raw) /\ raw.o.code = "099")
        => ~transactionFailed

InputErrorCodes == {"018", "010", "026"}

\* C9 (input errors are not retryable): after a failed payload classified
\* as invalid recipient or invalid plan/variation, the retry control is not
\* armed.
C9_InputErrorsNotRetryable ==
    (last.done /\ last.calls = 1 /\ Len(inflight) = 0
       /\ NormalizedOutcome(last.raw) = "Failed"
       /\ (last.raw.o.code \in InputErrorCodes
             \/ (last.raw.hasResponse /\ last.raw.r.code \in InputErrorCodes)))
        => ~RetryEnabled

\* C10 (one notification per attempt): the provider and the screen together
\* raise at most one toast for an attempt.
C10_OneToastPerAttempt ==
    (last.done /\ last.calls = 1) => Len(last.toasts) <= 1

\* C11 (timeout scenario): when the timeout controller aborts the submit
\* call, the attempt is shown as failed with the timeout message, a retry is
\* permitted, and the balance refresh was invoked exactly once.
C11_TimeoutFailedRetryableReconciled ==
    (stage = "shown" /\ isAuthenticated /\ raw.kind = "abort")
        => /\ last.failed
           /\ transactionFailed
           /\ failedMessage = TimeoutMessage
           /\ RetryEnabled
           /\ last.refreshes = 1

\* C12 (request immutability across retry): every retry submission carries
\* the purchase fields of the stored failed attempt it retries, whatever the
\* form holds by then.
C12_RetryKeepsFields ==
    [][(Len(inflight') = Len(inflight) + 1 /\ inflight'[Len(inflight')].isRetry)
         => inflight'[Len(inflight')].req.fields = failedTransaction.fields]_vars

\* C13 (session discard): a purchase started from the form leaves the retry
\* counter at 0 and no stored failed transaction of the previous session.
C13_NewPurchaseDiscardsSession ==
    [][(Len(inflight') = Len(inflight) + 1 /\ ~inflight'[Len(inflight')].isRetry)
         => (retryCount' = 0 /\ failedTransaction' = NoTransaction)]_vars

\* C14 (transport errors do not consume retries): the retry that follows an
\* attempt that failed with a network error leaves the retry counter as it
\* was.
C14_TransportRetryIsFree ==
    [][(/\ last.done
        /\ last.raw.kind = "network"
        /\ Len(inflight') = Len(inflight) + 1
        /\ inflight'[Len(inflight')].isRetry)
         => retryCount' = retryCount]_vars

\* The outcome the purchase flow shows for a payload, and the class the
\* detail view derives from the same payload.
PurchaseFlowClass(p) ==
    IF isVTPassSuccess(makePurchase(TRUE, p).ret) THEN "completed" ELSE "failed"

DetailClass(d) ==
    CASE d.apiStatus = "Delivered" -> "completed"
      [] d.apiStatus = "Processing" -> "pending"
      [] d.apiStatus = "Failed" -> "failed"
      [] OTHER -> "unknown"

\* C15 (status lookup agrees with purchase-time normalization): for every
\* stored payload, the class processTransaction derives from response_data
\* and the status it displays are the outcome the purchase flow gave that
\* payload.
C15_DetailAgreesWithPurchase ==
    stage = "viewed"
        => /\ DetailClass(detail) = PurchaseFlowClass(raw)
           /\ (PurchaseFlowClass(raw) = "completed" => detail.status = "completed")

\* C16 (two calls, two ids): two calls of generateUniqueRequestId in
\* immediate succession with the same prefix return different strings.
C16_TwoCallsDiffer ==
    Len(ids) = 2 => ids[1] # ids[2]

WithoutSuggestedAction(p) == [p EXCEPT !.o.suggested_action = Undef]

\* C17 (suggested_action is appended and nothing else): for a failure
\* response that carries suggested_action, the message the screen extracts
\* is the message of the same response without suggested_action, followed by
\* the suggested_action text.
C17_SuggestedActionAppended ==
    (/\ stage = "shown"
     /\ isAuthenticated
     /\ raw.kind = "obj"
     /\ ~raw.hasResponse
     /\ NormalizedOutcome(raw) = "Failed"
     /\ Truthy(raw.o.suggested_action))
        => failedMessage = ScreenErrorMessage(screen, WithoutSuggestedAction(raw))
                             \o " " \o raw.o.suggested_action

\* C18 (error classification is total and never empty): whenever an attempt
\* is shown as failed, the message extracted for it and the message the
\* failure card shows are non-empty strings.
C18_FailureMessageNonEmpty ==
    (stage = "shown" /\ last.failed)
        => (failedMessage # "" /\ CardMessage # "")

\* What a message about code '014' blames: the provider's funds or the
\* user's own account.
FundsMessageKind(msg) ==
    CASE msg = "Insufficient funds at the provider. Please try again later or contact support."
           -> "InsufficientProviderFunds"
      [] msg = "Insufficient funds in your account. Please add funds and try again."
           -> "InsufficientUserFunds"
      [] OTHER -> "Other"

\* C19 (code 014): the response {code: '014'} is shown as failed, with a
\* non-empty message that reports insufficient funds at the provider, on
\* every screen.
C19_Code014IsProviderFunds ==
    (/\ stage = "shown"
     /\ isAuthenticated
     /\ raw = ObjResp([EmptyObj EXCEPT !.code = "014"]))
        => /\ last.failed
           /\ transactionFailed
           /\ failedMessage # ""
           /\ FundsMessageKind(failedMessage) = "InsufficientProviderFunds"

\* C20 (no optimistic decrement): no step of a purchase attempt changes the
\* screen's or the provider's balance state except to a value the backend
\* returned, or to the 0 fallback.
C20_BalanceOnlyFromBackend ==
    [][/\ (balance' # balance => balance' \in reads' \cup {0})
       /\ (providerBalance' # providerBalance => providerBalance' \in reads' \cup {0})]_vars

\* C20 witness: a successful attempt was shown on a screen whose
\* refreshBalance sets the balance state, after the provider's balance was
\* set from a read.
C20_Witness ==
    /\ stage = "shown"
    /\ last.success
    /\ screen = "cable-tv"
    /\ balance = profileBalance
    /\ balance # MountBalance
    /\ providerBalance \in BackendBalances

\* C21 (balance refresh never throws and never masks the outcome): every
\* refresh ended with getVTPassBalance and fetchBalance returning, whatever
\* the balance endpoint did, and the flags and the message the screen shows
\* after the attempt are those of the purchase response alone.
C21_RefreshNeverMasksOutcome ==
    /\ refresh # NoRefresh => (refresh.api = "return" /\ refresh.provider = "return")
    /\ (stage = "shown" /\ isAuthenticated)
         => /\ transactionSuccessful = ScreenSuccess(screen, provResult.ret)
            /\ transactionFailed = ~ScreenSuccess(screen, provResult.ret)
            /\ failedMessage = IF ScreenSuccess(screen, provResult.ret) THEN ""
                               ELSE ScreenErrorMessage(screen, provResult.ret)

\* C21 witness: a purchase was shown as a success and the refresh that
\* followed it failed at the balance endpoint.
C21_Witness ==
    /\ stage = "shown"
    /\ refresh.read = ReadFailed
    /\ providerBalance = 0
    /\ transactionSuccessful
    /\ ~transactionFailed

\* C22 (retry counter of the airtime and data screens): the counter stays
\* within 0..MAX_RETRIES, every retry submission is made with the counter
\* below MAX_RETRIES and raises it by one, and no more than MAX_RETRIES retry
\* submissions follow a purchase.
C22_RetryCounterBounded ==
    (isAuthenticated /\ screen \in {"airtime", "data"})
        => /\ retryCount \in 0..MAX_RETRIES
           /\ RetryEnabled => retryCount < MAX_RETRIES
           /\ submissions - 1 <= MAX_RETRIES

\* C23 (airtime watchdog): once the purchaseTimeout timer has fired on a
\* purchase that has not completed, the processing state is ended, the
\* transaction is marked failed and the 'request is taking too long'
\* message is shown; and a purchase that completed before the timer was due
\* is left as its outcome branch set it.
C23_WatchdogEndsProcessing ==
    /\ (stage = "calling" /\ watchdog = "fired")
         => /\ ~isPurchasing
            /\ transactionFailed
            /\ failedMessage = WatchdogMessage
    /\ (stage = "shown" /\ watchdog = "cleared")
         => failedMessage # WatchdogMessage

\* C24 (every submitted purchase ends): the 30 s abort of makePurchase
\* bounds the wait for every network step of the call: once its timer has
\* fired, the call is waiting neither for the purchase fetch nor for the
\* fetch of a token refresh, so the screen's outcome branch runs and the
\* processing indicator is cleared.
C24_AbortBoundsEveryStep ==
    (caller = "purchase" /\ abortTimer = "fired")
        => net \notin {"fetching", "refreshing"}

\* C28 (apiRequest terminates): a request that was sent eventually returns
\* or throws, when every fetch is answered, whatever the answers are.
C28_ApiRequestTerminates ==
    (net = "fetching") ~> (net = "done")

\* C25 (outcome flags are mutually exclusive): transactionSuccessful and
\* transactionFailed are never both true.
C25_FlagsExclusive ==
    ~(transactionSuccessful /\ transactionFailed)

\* C26 (makePurchase never rejects): the promise of makePurchase always
\* resolves; when an error was raised below it (by apiRequest, or as a
\* managed error of purchaseService) it resolves with {code: 'error',
\* response_description, error_message} carrying the error's message, and
\* an unauthenticated call resolves with null without a network call.
C26_MakePurchaseNeverRejects ==
    stage \in {"resolved", "shown"}
        => /\ provResult.settled = "resolve"
           /\ (isAuthenticated /\ purchaseService(raw).tag = "throw")
                => /\ provResult.ret.kind = "obj"
                   /\ provResult.ret.o.code = "error"
                   /\ provResult.ret.o.response_description = purchaseService(raw).message
                   /\ provResult.ret.o.error_message = purchaseService(raw).message
           /\ ~isAuthenticated
                => (provResult.ret = NullResp /\ provResult.calls = 0)

\* C26 witness: purchaseService threw a managed error for a failed nested
\* response and makePurchase resolved with the error-shaped response.
C26_Witness ==
    /\ stage = "resolved"
    /\ raw.kind = "obj"
    /\ purchaseService(raw).tag = "throw"
    /\ provResult.settled = "resolve"
    /\ provResult.ret.o.code = "error"

\* C27 (the two extractors agree): for every failure response, the airtime
\* screen's extractVTPassErrorMessage and the shared helper take their
\* message from the same source (code-specific text, error_message,
\* response_description or the default).
C27_ExtractorsAgree ==
    (stage = "shown" /\ isAuthenticated /\ last.failed /\ provResult.ret.kind = "obj")
        => airtimeExtractVTPassErrorKind(provResult.ret)
             = extractVTPassErrorKind(provResult.ret)

\* C29 (route guard): following the middleware's redirects reaches a
\* pass-through response within two hops, and a request that carries an
\* authentication cookie but no pin_set = 'true' is passed through only on a
\* public path.
C29_GuardNoLoopAndPinEnforced ==
    /\ hops <= 2
    /\ (stage = "routing" /\ hops = 2)
         => middleware(pathname, accessToken, authTokens, pinSet).kind = "next"
    /\ (stage = "passed" /\ GuardAuthenticated(accessToken, authTokens) /\ pinSet # "true")
         => isPublicPath(pathname)

\* C30 (a delivered transaction is never shown as failed): for every stored
\* status and every response_data, the record processTransaction returns
\* does not have api_status 'Delivered' together with status 'failed'.
C30_DeliveredNeverFailed ==
    stage = "viewed" => ~(detail.apiStatus = "Delivered" /\ detail.status = "failed")

\* C30 witness: a record stored as failed whose response_data reports a
\* delivered purchase was processed, and is shown as completed.
C30_Witness ==
    /\ stage = "viewed"
    /\ storedStatus = "failed"
    /\ raw.o.status = "delivered"
    /\ raw.o.code = "016"
    /\ detail.apiStatus = "Delivered"
    /\ detail.status = "completed"

====
